---- MODULE Spec2Model ----
(***************************************************************************)
(* The tagged filterer of lib/src/filter/tagged.rs: a registry of filters  *)
(* grouped in ordered buckets by Matcher, and check_event, which decides   *)
(* whether an event (a sequence of tags) passes the registry.              *)
(*                                                                         *)
(* Text is a sequence of one-character strings, so that equality, regex    *)
(* search and glob matching are computed on characters.  Filter.in_path is *)
(* never read by this file's code and is left out of the Filter record.    *)
(***************************************************************************)
EXTENDS Naturals, Sequences, FiniteSets, TLC

VARIABLES
    filters,    \* TaggedFilterer.filters: Matcher -> sequence of Filter
    event,      \* the tags of the event of the latest check_event call
    outcome,    \* what that call produced: "none" before any call
    mfilter,    \* a filter on its own, the receiver of direct Filter::matches calls
    msubject,   \* the subject of the latest such call
    mresult     \* the result of that call: "none" before any call

vars == <<filters, event, outcome, mfilter, msubject, mresult>>

----------------------------------------------------------------------------
(* Bounds of the model.                                                    *)

\* most placements (bucket, filter) the registries of Spec are grouped from
MaxFilters == 2
\* most tags of an event
MaxTags == 2
\* most filters in the Source bucket of SpecFold
MaxBucket == 3
\* longest subject of a direct Filter::matches call in SpecMatches
MaxLen == 2

----------------------------------------------------------------------------
(* enum Matcher, enum Op, enum Pattern, the kinds of Tag.                  *)

Matcher == {"Tag", "Path", "FileEventKind", "Source", "Process", "Signal",
            "ProcessCompletion"}

Op == {"Auto", "Equal", "NotEqual", "Regex", "NotRegex", "Glob", "NotGlob",
       "InSet", "NotInSet"}

TagKind == {"Path", "FileEventKind", "Source", "Process", "Signal",
            "ProcessCompletion"}

\* Pattern::Exact(String), Regex(Regex), Glob(GlobMatcher), Set(HashSet<String>).
\* One record shape for the four variants: text is the string, the regex
\* source or the glob source, set the members of a Set.
Exact(t) == [kind |-> "Exact", text |-> t, set |-> {}]
RegexPat(t) == [kind |-> "Regex", text |-> t, set |-> {}]
GlobPat(t) == [kind |-> "Glob", text |-> t, set |-> {}]
SetPat(S) == [kind |-> "Set", text |-> <<>>, set |-> S]

\* struct Filter { in_path, on, op, pat, negate }
Filter(on, op, pat, negate) == [on |-> on, op |-> op, pat |-> pat, negate |-> negate]

\* Tag::Source(src) and Tag::FileEventKind(kind) carry the text their value is
\* rendered to, Tag::Process(pid) the process id; the payload of the other
\* kinds is never read.
SourceTag(t) == [kind |-> "Source", text |-> t, pid |-> 0]
FileEventKindTag(t) == [kind |-> "FileEventKind", text |-> t, pid |-> 0]
ProcessTag(pid) == [kind |-> "Process", text |-> <<>>, pid |-> pid]
PathTag == [kind |-> "Path", text |-> <<>>, pid |-> 0]
SignalTag == [kind |-> "Signal", text |-> <<>>, pid |-> 0]
ProcessCompletionTag == [kind |-> "ProcessCompletion", text |-> <<>>, pid |-> 0]

\* impl From<&Tag> for Matcher: never Matcher::Tag
MatcherFrom(tag) ==
    CASE tag.kind = "Path" -> "Path"
      [] tag.kind = "FileEventKind" -> "FileEventKind"
      [] tag.kind = "Source" -> "Source"
      [] tag.kind = "Process" -> "Process"
      [] tag.kind = "Signal" -> "Signal"
      [] tag.kind = "ProcessCompletion" -> "ProcessCompletion"

----------------------------------------------------------------------------
(* Results.                                                                *)

\* Result<T, RuntimeError>::Ok(v); a todo!() unwinds out of the call instead
Ok(v) == [res |-> "Ok", val |-> v]
Panic == [res |-> "Panic", val |-> "todo"]

\* Option<bool>
Some(b) == IF b THEN "SomeTrue" ELSE "SomeFalse"
None == "None"

----------------------------------------------------------------------------
(* Subjects.                                                               *)

\* u32's to_string: the decimal digits, most significant first
Digit(d) == <<"0", "1", "2", "3", "4", "5", "6", "7", "8", "9">>[d + 1]

RECURSIVE to_string(_)
to_string(n) ==
    IF n < 10 THEN <<Digit(n)>>
    ELSE Append(to_string(n \div 10), Digit(n % 10))

\* Tag::discriminant_name: the name of the tag's variant
discriminant_name(tag) ==
    CASE tag.kind = "Path" -> <<"P", "a", "t", "h">>
      [] tag.kind = "FileEventKind" ->
            <<"F", "i", "l", "e", "E", "v", "e", "n", "t", "K", "i", "n", "d">>
      [] tag.kind = "Source" -> <<"S", "o", "u", "r", "c", "e">>
      [] tag.kind = "Process" -> <<"P", "r", "o", "c", "e", "s", "s">>
      [] tag.kind = "Signal" -> <<"S", "i", "g", "n", "a", "l">>
      [] tag.kind = "ProcessCompletion" ->
            <<"P", "r", "o", "c", "e", "s", "s", "C", "o", "m", "p", "l", "e", "t",
              "i", "o", "n">>

----------------------------------------------------------------------------
(* Pattern matching.                                                       *)

\* Regex::is_match for a regex of literal characters and ".": the pattern
\* matches somewhere in the subject
RegexIsMatch(pat, subject) ==
    \E k \in 0..Len(subject) :
        /\ k + Len(pat) <= Len(subject)
        /\ \A i \in 1..Len(pat) : pat[i] = "." \/ pat[i] = subject[k + i]

\* GlobMatcher::is_match for a glob of literal characters, "?" and "*": the
\* glob matches the whole subject
RECURSIVE GlobIsMatch(_, _)
GlobIsMatch(glob, subject) ==
    IF glob = <<>> THEN subject = <<>>
    ELSE IF Head(glob) = "*"
         THEN \/ GlobIsMatch(Tail(glob), subject)
              \/ subject # <<>> /\ GlobIsMatch(glob, Tail(subject))
         ELSE /\ subject # <<>>
              /\ Head(glob) = "?" \/ Head(glob) = Head(subject)
              /\ GlobIsMatch(Tail(glob), Tail(subject))

\* matches without the two arms that pair InSet and NotInSet with Exact
matches_NoExactShorthand(filter, subject) ==
    LET op == filter.op
        pat == filter.pat
    IN CASE op = "Equal" /\ pat.kind = "Exact" -> Ok(subject = pat.text)
         [] op = "NotEqual" /\ pat.kind = "Exact" -> Ok(subject # pat.text)
         [] op = "Regex" /\ pat.kind = "Regex" -> Ok(RegexIsMatch(pat.text, subject))
         [] op = "NotRegex" /\ pat.kind = "Regex" -> Ok(~RegexIsMatch(pat.text, subject))
         [] op = "Glob" /\ pat.kind = "Glob" -> Ok(GlobIsMatch(pat.text, subject))
         [] op = "NotGlob" /\ pat.kind = "Glob" -> Ok(~GlobIsMatch(pat.text, subject))
         [] op = "InSet" /\ pat.kind = "Set" -> Ok(subject \in pat.set)
         [] op = "NotInSet" /\ pat.kind = "Set" -> Ok(subject \notin pat.set)
         [] OTHER -> Ok(FALSE)

\* Filter::matches
matches(filter, subject) ==
    LET op == filter.op
        pat == filter.pat
    IN CASE op = "Equal" /\ pat.kind = "Exact" -> Ok(subject = pat.text)
         [] op = "NotEqual" /\ pat.kind = "Exact" -> Ok(subject # pat.text)
         [] op = "Regex" /\ pat.kind = "Regex" -> Ok(RegexIsMatch(pat.text, subject))
         [] op = "NotRegex" /\ pat.kind = "Regex" -> Ok(~RegexIsMatch(pat.text, subject))
         [] op = "Glob" /\ pat.kind = "Glob" -> Ok(GlobIsMatch(pat.text, subject))
         [] op = "NotGlob" /\ pat.kind = "Glob" -> Ok(~GlobIsMatch(pat.text, subject))
         [] op = "InSet" /\ pat.kind = "Set" -> Ok(subject \in pat.set)
         [] op = "InSet" /\ pat.kind = "Exact" -> Ok(subject = pat.text)
         [] op = "NotInSet" /\ pat.kind = "Set" -> Ok(subject \notin pat.set)
         [] op = "NotInSet" /\ pat.kind = "Exact" -> Ok(subject # pat.text)
         [] OTHER -> Ok(FALSE)

\* Result::map(Some)
MapSome(r) == IF r.res = "Ok" THEN Ok(Some(r.val)) ELSE r

\* match_tag with its last arm giving Some(false) in place of None
match_tag_NoSkip(filter, tag) ==
    CASE filter.on = "Tag" -> MapSome(matches(filter, discriminant_name(tag)))
      [] tag.kind = "Path" /\ filter.on = "Path" -> Panic
      [] tag.kind = "FileEventKind" /\ filter.on = "FileEventKind" ->
            MapSome(matches(filter, tag.text))
      [] tag.kind = "Source" /\ filter.on = "Source" -> MapSome(matches(filter, tag.text))
      [] tag.kind = "Process" /\ filter.on = "Process" ->
            MapSome(matches(filter, to_string(tag.pid)))
      [] tag.kind = "Signal" /\ filter.on = "Signal" -> Panic
      [] tag.kind = "ProcessCompletion" /\ filter.on = "ProcessCompletion" -> Panic
      [] OTHER -> Ok(Some(FALSE))

\* TaggedFilterer::match_tag
match_tag(filter, tag) ==
    CASE filter.on = "Tag" -> MapSome(matches(filter, discriminant_name(tag)))
      [] tag.kind = "Path" /\ filter.on = "Path" -> Panic
      [] tag.kind = "FileEventKind" /\ filter.on = "FileEventKind" ->
            MapSome(matches(filter, tag.text))
      [] tag.kind = "Source" /\ filter.on = "Source" -> MapSome(matches(filter, tag.text))
      [] tag.kind = "Process" /\ filter.on = "Process" ->
            MapSome(matches(filter, to_string(tag.pid)))
      [] tag.kind = "Signal" /\ filter.on = "Signal" -> Panic
      [] tag.kind = "ProcessCompletion" /\ filter.on = "ProcessCompletion" -> Panic
      [] OTHER -> Ok(None)

----------------------------------------------------------------------------
(* check_event.                                                            *)

\* ApplyFilter taking a negated filter for a plain one
ApplyFilter_PlainAnd(filter, app, tag_match) ==
    IF app = None THEN tag_match ELSE tag_match /\ app = "SomeTrue"

\* ApplyFilter passing over every negated filter
ApplyFilter_NegateIgnored(filter, app, tag_match) ==
    IF app = None THEN tag_match
    ELSE IF filter.negate THEN tag_match
    ELSE tag_match /\ app = "SomeTrue"

\* ApplyFilter with a negated filter assigning app to tag_match
ApplyFilter_NegateAssigns(filter, app, tag_match) ==
    IF app = None THEN tag_match
    ELSE IF filter.negate THEN app = "SomeTrue"
    ELSE tag_match /\ app = "SomeTrue"

\* the body of `if let Some(app)`: what one filter does to tag_match
ApplyFilter(filter, app, tag_match) ==
    IF app = None THEN tag_match
    ELSE IF filter.negate
         THEN IF app = "SomeTrue" THEN TRUE ELSE tag_match
         ELSE tag_match /\ app = "SomeTrue"

\* `for filter in tag_filters`, from the i-th filter on
RECURSIVE FilterLoop(_, _, _, _)
FilterLoop(tag_filters, tag, i, tag_match) ==
    IF i > Len(tag_filters) THEN Ok(tag_match)
    ELSE LET r == match_tag(tag_filters[i], tag)
         IN IF r.res # "Ok" THEN r
            ELSE FilterLoop(tag_filters, tag, i + 1,
                            ApplyFilter(tag_filters[i], r.val, tag_match))

\* the tag loop without the `return Ok(false)` of a rejecting bucket
RECURSIVE TagLoop_IgnoresReject(_, _, _)
TagLoop_IgnoresReject(reg, tags, i) ==
    IF i > Len(tags) THEN "true"
    ELSE LET tag == tags[i]
             m == MatcherFrom(tag)
         IN IF m \notin DOMAIN reg THEN TagLoop_IgnoresReject(reg, tags, i + 1)
            ELSE IF reg[m] = <<>> THEN TagLoop_IgnoresReject(reg, tags, i + 1)
            ELSE LET r == FilterLoop(reg[m], tag, 1, TRUE)
                 IN IF r.res # "Ok" THEN "panic"
                    ELSE TagLoop_IgnoresReject(reg, tags, i + 1)

\* the tag loop returning the verdict of the first non-empty bucket it meets
RECURSIVE TagLoop_FirstOnly(_, _, _)
TagLoop_FirstOnly(reg, tags, i) ==
    IF i > Len(tags) THEN "true"
    ELSE LET tag == tags[i]
             m == MatcherFrom(tag)
         IN IF m \notin DOMAIN reg THEN TagLoop_FirstOnly(reg, tags, i + 1)
            ELSE IF reg[m] = <<>> THEN TagLoop_FirstOnly(reg, tags, i + 1)
            ELSE LET r == FilterLoop(reg[m], tag, 1, TRUE)
                 IN IF r.res # "Ok" THEN "panic"
                    ELSE IF ~r.val THEN "false"
                    ELSE "true"

\* `for tag in &event.tags`, from the i-th tag on, and the final Ok(true)
RECURSIVE TagLoop(_, _, _)
TagLoop(reg, tags, i) ==
    IF i > Len(tags) THEN "true"
    ELSE LET tag == tags[i]
             m == MatcherFrom(tag)
         IN IF m \notin DOMAIN reg THEN TagLoop(reg, tags, i + 1)
            ELSE IF reg[m] = <<>> THEN TagLoop(reg, tags, i + 1)
            ELSE LET r == FilterLoop(reg[m], tag, 1, TRUE)
                 IN IF r.res # "Ok" THEN "panic"
                    ELSE IF ~r.val THEN "false"
                    ELSE TagLoop(reg, tags, i + 1)

\* check_event with the result of the empty-registry test inverted
check_event_EmptyRejects(reg, tags) ==
    IF DOMAIN reg = {} THEN "false" ELSE TagLoop(reg, tags, 1)

\* Filterer::check_event: "true" is Ok(true), "false" is Ok(false), "panic" is
\* the unwinding of a todo!(); no path builds an Err
check_event(reg, tags) ==
    IF DOMAIN reg = {} THEN "true" ELSE TagLoop(reg, tags, 1)

----------------------------------------------------------------------------
(* The operations.                                                         *)

\* the event source puts one more tag on the event it is building; what an
\* earlier call said of the shorter event no longer stands
AddTag(t) ==
    /\ Len(event) < MaxTags
    /\ event' = Append(event, t)
    /\ outcome' = "none"
    /\ UNCHANGED <<filters, mfilter, msubject, mresult>>

\* a call of check_event on the frozen registry, for the event as built
CheckEvent ==
    /\ outcome' = check_event(filters, event)
    /\ UNCHANGED <<filters, event, mfilter, msubject, mresult>>

\* a direct call of the public Filter::matches on the filter mfilter
Matches(s) ==
    /\ msubject' = s
    /\ mresult' = (LET r == matches(mfilter, s)
                   IN IF r.res # "Ok" THEN "error"
                      ELSE IF r.val THEN "true" ELSE "false")
    /\ UNCHANGED <<filters, event, outcome, mfilter>>

----------------------------------------------------------------------------
(* Texts of the inputs.                                                    *)

TA == <<"a">>
TB == <<"b">>
TC == <<"c">>
TOne == <<"1">>
TAny == <<"A", "n", "y">>
TSource == <<"S", "o", "u", "r", "c", "e">>

\* the sequences over S of length at most n
SeqsUpTo(S, n) == UNION {[1..k -> S] : k \in 0..n}

\* the filter on its own of the specifications that call only check_event
NoFilter == Filter("Tag", "Auto", Exact(<<>>), FALSE)

InitWith(R, F) ==
    /\ filters \in R
    /\ event = <<>>
    /\ outcome = "none"
    /\ mfilter \in F
    /\ msubject = <<>>
    /\ mresult = "none"

----------------------------------------------------------------------------
(* Spec: registries of several buckets, events of several tags.            *)

\* a placement puts a filter in the bucket of a key, or (has = FALSE) only
\* creates the bucket
Place(key, f) == [key |-> key, has |-> TRUE, filter |-> f]
PlaceNothing(key) == [key |-> key, has |-> FALSE, filter |-> NoFilter]

Placements ==
    { Place("Source", Filter("Source", "Equal", Exact(TA), FALSE)),
      Place("Source", Filter("Source", "Equal", Exact(TB), TRUE)),
      Place("Source", Filter("Process", "Equal", Exact(TA), FALSE)),
      Place("Process", Filter("Process", "Equal", Exact(TOne), FALSE)),
      Place("Process", Filter("Process", "Equal", Exact(TOne), TRUE)),
      Place("Process", Filter("Tag", "Equal", Exact(TSource), FALSE)),
      Place("Source", Filter("Tag", "NotEqual", Exact(TSource), FALSE)),
      Place("Signal", Filter("Tag", "Equal", Exact(TSource), FALSE)),
      Place("FileEventKind", Filter("FileEventKind", "NotEqual", Exact(TAny), FALSE)),
      Place("Path", Filter("Path", "Equal", Exact(TA), FALSE)),
      Place("Path", Filter("Source", "Equal", Exact(TA), FALSE)),
      Place("Signal", Filter("Signal", "Equal", Exact(TA), FALSE)),
      Place("ProcessCompletion", Filter("ProcessCompletion", "Equal", Exact(TA), FALSE)),
      Place("Tag", Filter("Tag", "Equal", Exact(TSource), FALSE)),
      PlaceNothing("Source"),
      PlaceNothing("Process") }

\* the registry a sequence of placements builds: one bucket per key, the
\* filters of a bucket in the order they were placed
BucketOf(ps, m) ==
    LET sel == SelectSeq(ps, LAMBDA p : p.key = m /\ p.has)
    IN [i \in 1..Len(sel) |-> sel[i].filter]

Group(ps) == [m \in {ps[i].key : i \in 1..Len(ps)} |-> BucketOf(ps, m)]

Registries == {Group(ps) : ps \in SeqsUpTo(Placements, MaxFilters)}

Tags == {SourceTag(TA), SourceTag(TB), ProcessTag(1), ProcessTag(10),
         FileEventKindTag(TAny),
         PathTag, SignalTag, ProcessCompletionTag}

Init == InitWith(Registries, {NoFilter})

Next ==
    \/ \E t \in Tags : AddTag(t)
    \/ CheckEvent

Spec == Init /\ [][Next]_vars

----------------------------------------------------------------------------
(* What the specification says of one filter and one tag.                  *)

UnsupportedKind == {"Path", "Signal", "ProcessCompletion"}

\* the filter's Matcher is the generic Tag or the tag's own kind
Compatible(filter, tag) == filter.on = "Tag" \/ filter.on = tag.kind

\* the filter targets the tag's kind and that kind has no projection
Unsupported(filter, tag) == filter.on = tag.kind /\ tag.kind \in UnsupportedKind

\* the tag's bucket exists and holds a filter unsupported for the tag
HasUnsupported(reg, tag) ==
    /\ tag.kind \in DOMAIN reg
    /\ \E j \in 1..Len(reg[tag.kind]) : Unsupported(reg[tag.kind][j], tag)

\* a pattern's own match
Hits(pat, subject) ==
    CASE pat.kind = "Exact" -> subject = pat.text
      [] pat.kind = "Regex" -> RegexIsMatch(pat.text, subject)
      [] pat.kind = "Glob" -> GlobIsMatch(pat.text, subject)
      [] pat.kind = "Set" -> subject \in pat.set

\* the pairing table of operators and patterns
PositivePairs == {<<"Equal", "Exact">>, <<"Regex", "Regex">>, <<"Glob", "Glob">>,
                  <<"InSet", "Set">>, <<"InSet", "Exact">>}
NegativePairs == {<<"NotEqual", "Exact">>, <<"NotRegex", "Regex">>,
                  <<"NotGlob", "Glob">>, <<"NotInSet", "Set">>,
                  <<"NotInSet", "Exact">>}

Table(op, pat, subject) ==
    IF <<op, pat.kind>> \in PositivePairs THEN Hits(pat, subject)
    ELSE IF <<op, pat.kind>> \in NegativePairs THEN ~Hits(pat, subject)
    ELSE FALSE

\* the subject a tag is projected to for a filter
Subject(filter, tag) ==
    IF filter.on = "Tag" THEN discriminant_name(tag)
    ELSE IF tag.kind = "Process" THEN to_string(tag.pid)
    ELSE tag.text

\* app of a compatible, supported filter
App(filter, tag) == Table(filter.op, filter.pat, Subject(filter, tag))

\* the left-to-right fold of the specification over a bucket, from tag_match =
\* true; filters that are skipped leave tag_match as it is
Verdict(bucket, tag) ==
    LET tm[i \in 0..Len(bucket)] ==
            IF i = 0 THEN TRUE
            ELSE LET f == bucket[i]
                 IN IF ~Compatible(f, tag) \/ Unsupported(f, tag) THEN tm[i - 1]
                    ELSE IF f.negate THEN (IF App(f, tag) THEN TRUE ELSE tm[i - 1])
                    ELSE tm[i - 1] /\ App(f, tag)
    IN tm[Len(bucket)]

\* the verdict of a tag: no bucket and an empty bucket count as true
TagVerdict(reg, tag) ==
    tag.kind \notin DOMAIN reg \/ Verdict(reg[tag.kind], tag)

RemoveAt(seq, i) == [k \in 1..(Len(seq) - 1) |-> IF k < i THEN seq[k] ELSE seq[k + 1]]

RemoveFilter(reg, m, j) == [reg EXCEPT ![m] = RemoveAt(reg[m], j)]

Perms(seq) ==
    {[i \in 1..Len(seq) |-> seq[p[i]]] : p \in Permutations(1..Len(seq))}

----------------------------------------------------------------------------
(* Claims checked under Spec.                                              *)

\* the call reaches a filter with no projection: some tag has one in its
\* bucket, and no earlier tag has one or is rejected
ReachesUnsupported ==
    \E i \in 1..Len(event) :
        /\ HasUnsupported(filters, event[i])
        /\ \A k \in 1..(i - 1) :
              ~HasUnsupported(filters, event[k]) /\ TagVerdict(filters, event[k])

\* C1: a check_event call that evaluates a Path, Signal or ProcessCompletion
\* filter against a tag of that kind returns an explicit "unsupported matcher"
\* error and never aborts.
C1_UnsupportedIsError ==
    outcome # "none" =>
        /\ outcome # "panic"
        /\ ReachesUnsupported => outcome = "error"

\* C3: when no unsupported matcher is evaluated, check_event returns true
\* exactly when every tag of the event has a bucket verdict of true (no
\* bucket and empty bucket counting as true); an unsupported matcher is
\* evaluated only if some tag's bucket holds one.
C3_AndAcrossTags ==
    outcome # "none" =>
        /\ outcome \in {"true", "false"} =>
              (outcome = "true" <=>
                  \A i \in 1..Len(event) : TagVerdict(filters, event[i]))
        /\ (\A i \in 1..Len(event) : ~HasUnsupported(filters, event[i])) =>
              outcome \in {"true", "false"}

\* C3's case: two tags, the first accepted by its bucket, the second rejected
C3_Witness ==
    /\ outcome = "false"
    /\ Len(event) = 2
    /\ event[1].kind \in DOMAIN filters /\ filters[event[1].kind] # <<>>
    /\ TagVerdict(filters, event[1])
    /\ ~TagVerdict(filters, event[2])

\* C4: with no bucket at all in the registry, check_event returns true for
\* every event.
C4_EmptyRegistryPasses ==
    (outcome # "none" /\ DOMAIN filters = {}) => outcome = "true"

\* C4's case: an empty registry and an event that carries a Path, Signal or
\* ProcessCompletion tag
C4_Witness ==
    /\ DOMAIN filters = {}
    /\ outcome = "true"
    /\ \E i \in 1..Len(event) : event[i].kind \in UnsupportedKind

\* every filter sits in the bucket of its own Matcher
GroupedByOwnMatcher(reg) ==
    \A m \in DOMAIN reg : \A j \in 1..Len(reg[m]) : reg[m][j].on = m

\* C6: in a registry grouped by the filters' own Matcher, the filters of the
\* generic Tag bucket are evaluated against every tag: an accepted event has
\* every tag pass the Tag bucket's fold.
C6_TagBucketEvaluated ==
    (outcome = "true" /\ GroupedByOwnMatcher(filters) /\ "Tag" \in DOMAIN filters) =>
        \A i \in 1..Len(event) : Verdict(filters["Tag"], event[i])

\* C8 as stated: the outcome is the same for every order of the event's tags.
C8_TagOrderIrrelevant ==
    outcome # "none" =>
        \A e2 \in Perms(event) : check_event(filters, e2) = outcome

\* C8 amended: whether check_event returns true is the same for every order
\* of the tags, and the whole outcome is when no tag's bucket holds a filter
\* unsupported for it.
C8_AcceptanceOrderIrrelevant ==
    outcome # "none" =>
        \A e2 \in Perms(event) :
            /\ (check_event(filters, e2) = "true") <=> (outcome = "true")
            /\ (\A i \in 1..Len(event) : ~HasUnsupported(filters, event[i])) =>
                  check_event(filters, e2) = outcome

\* C8's case: a rejecting tag before a tag with an unsupported filter; the
\* other order aborts
C8_Witness ==
    /\ outcome = "false"
    /\ \E e2 \in Perms(event) : check_event(filters, e2) = "panic"

\* C9: in a non-empty registry, removing a tag that has no bucket or an empty
\* bucket, or removing from a tag's bucket a filter incompatible with the tag's
\* kind, leaves the result of check_event as it was.
C9_NoConstraint ==
    (outcome # "none" /\ DOMAIN filters # {}) =>
        \A i \in 1..Len(event) :
            LET m == event[i].kind
            IN /\ (m \notin DOMAIN filters \/ filters[m] = <<>>) =>
                      check_event(filters, RemoveAt(event, i)) = outcome
               /\ m \in DOMAIN filters =>
                      \A j \in 1..Len(filters[m]) :
                          ~Compatible(filters[m][j], event[i]) =>
                              check_event(RemoveFilter(filters, m, j), event) = outcome

\* C9's case: a tag whose bucket holds an incompatible filter and rejects, and
\* a tag without a bucket
C9_Witness ==
    /\ outcome = "false"
    /\ \E i \in 1..Len(event) : event[i].kind \notin DOMAIN filters
    /\ \E i \in 1..Len(event) :
          /\ event[i].kind \in DOMAIN filters
          /\ \E j \in 1..Len(filters[event[i].kind]) :
                ~Compatible(filters[event[i].kind][j], event[i])

----------------------------------------------------------------------------
(* SpecFold: one Source bucket, events of Source tags.                     *)

\* Filter1 and Filter2 of the override scenario
F1 == Filter("Source", "Equal", Exact(TA), FALSE)
F2 == Filter("Source", "Equal", Exact(TB), TRUE)

FoldFilters ==
    {Filter("Source", op, Exact(t), n) :
        op \in {"Equal", "NotEqual"}, t \in {TA, TB}, n \in BOOLEAN}
    \cup {Filter("Process", "Equal", Exact(TA), FALSE)}

FoldRegistries == {[m \in {"Source"} |-> b] : b \in SeqsUpTo(FoldFilters, MaxBucket)}

FoldTags == {SourceTag(TA), SourceTag(TB), SourceTag(TC)}

InitFold == InitWith(FoldRegistries, {NoFilter})

NextFold ==
    \/ \E t \in FoldTags : AddTag(t)
    \/ CheckEvent

SpecFold == InitFold /\ [][NextFold]_vars

\* C2: the verdict of a non-empty bucket is the left-to-right fold from
\* tag_match = true (non-negated: AND with app; negated with app true: true;
\* negated with app false: unchanged); for the Source bucket <<F1, F2>>
\* subject "c" is rejected and subject "b" accepted.
C2_BucketFold ==
    outcome # "none" =>
        /\ outcome \in {"true", "false"}
        /\ outcome = "true" <=>
              \A i \in 1..Len(event) : Verdict(filters["Source"], event[i])
        /\ filters["Source"] = <<F1, F2>> =>
              /\ event = <<SourceTag(TC)>> => outcome = "false"
              /\ event = <<SourceTag(TB)>> => outcome = "true"

\* C2's case: the override scenario with subject "b"
C2_Witness ==
    /\ filters["Source"] = <<F1, F2>>
    /\ event = <<SourceTag(TB)>>
    /\ outcome = "true"

\* the registry with the two filters of its two-filter Source bucket swapped
Swapped(reg) == [reg EXCEPT !["Source"] = <<reg["Source"][2], reg["Source"][1]>>]

\* C7: for subject "b" the bucket <<F1, F2>> and the bucket <<F2, F1>> give
\* different results: the first accepts, the second rejects.
C7_OrderSensitive ==
    (/\ outcome # "none"
     /\ event = <<SourceTag(TB)>>
     /\ filters["Source"] \in {<<F1, F2>>, <<F2, F1>>}) =>
        /\ check_event(Swapped(filters), event) # outcome
        /\ outcome = "true" <=> filters["Source"] = <<F1, F2>>

\* C7's case: the swapped order, evaluated for subject "b"
C7_Witness ==
    /\ filters["Source"] = <<F2, F1>>
    /\ event = <<SourceTag(TB)>>
    /\ outcome = "false"

\* the registry with g appended to its Source bucket
Appended(reg, g) == [reg EXCEPT !["Source"] = Append(@, g)]

\* C10: a bucket of negated filters only accepts every subject; a rejection
\* comes from a non-negated filter with app false that no later negated
\* filter with app true follows; appending a negated filter to the bucket of an
\* accepted event leaves it accepted.
C10_NegatedNeverRejects ==
    LET b == filters["Source"]
    IN outcome # "none" =>
        /\ (\A j \in 1..Len(b) : b[j].negate) => outcome = "true"
        /\ outcome = "false" =>
              \E i \in 1..Len(event) : \E j \in 1..Len(b) :
                  /\ ~b[j].negate
                  /\ Compatible(b[j], event[i])
                  /\ ~App(b[j], event[i])
                  /\ \A k \in (j + 1)..Len(b) :
                        ~(b[k].negate /\ Compatible(b[k], event[i]) /\ App(b[k], event[i]))
        /\ outcome = "true" =>
              \A g \in FoldFilters :
                  g.negate => check_event(Appended(filters, g), event) = "true"

\* C10's case: an accepted event whose bucket has a non-negated filter with
\* app false, overridden by a later negated filter, and ends on a negated
\* filter with app false
C10_Witness ==
    LET b == filters["Source"]
    IN /\ outcome = "true"
       /\ Len(event) = 1
       /\ Len(b) = 3
       /\ ~b[1].negate /\ Compatible(b[1], event[1]) /\ ~App(b[1], event[1])
       /\ b[2].negate /\ App(b[2], event[1])
       /\ b[3].negate /\ ~App(b[3], event[1])

----------------------------------------------------------------------------
(* SpecMatches: direct calls of Filter::matches, and check_event on buckets *)
(* that begin with a mismatched filter.                                    *)

TAB == <<"a", "b">>

MatchPatterns ==
    { Exact(<<>>), Exact(TA), Exact(TAB),
      RegexPat(<<>>), RegexPat(TB), RegexPat(<<"a", ".">>),
      GlobPat(TA), GlobPat(<<"a", "*">>), GlobPat(<<"?", "b">>), GlobPat(<<"*">>),
      SetPat({}), SetPat({TA}), SetPat({TA, TAB}) }

MatchFilters == {Filter("Source", op, pat, FALSE) : op \in Op, pat \in MatchPatterns}

MatchSubjects == SeqsUpTo({"a", "b"}, MaxLen)

\* filters whose operator and pattern do not pair
Mismatched ==
    { Filter("Source", "Auto", Exact(TA), FALSE),
      Filter("Source", "Equal", RegexPat(TA), FALSE),
      Filter("Source", "NotGlob", SetPat({TA}), TRUE) }

MatchRegistries ==
    {[m \in {"Source"} |-> <<mm, Filter("Source", "Equal", Exact(TA), n)>>] :
        mm \in Mismatched, n \in BOOLEAN}

MatchTags == {SourceTag(TA), SourceTag(TB)}

InitMatches == InitWith(MatchRegistries, MatchFilters)

NextMatches ==
    \/ \E s \in MatchSubjects : Matches(s)
    \/ \E t \in MatchTags : AddTag(t)
    \/ CheckEvent

SpecMatches == InitMatches /\ [][NextMatches]_vars

\* C5: Filter::matches gives, for every operator, pattern and subject, the
\* value of the pairing table and never an error: the pattern's own match for
\* Equal/Exact, Regex/Regex, Glob/Glob, InSet/Set and InSet/Exact, its
\* complement for the Not- pairs, false for every other pair; so a bucket
\* that begins with a mismatched filter is folded to its end, for every tag.
C5_MatchesTable ==
    /\ mresult # "none" =>
          mresult = (IF Table(mfilter.op, mfilter.pat, msubject) THEN "true" ELSE "false")
    /\ outcome # "none" =>
          /\ outcome \in {"true", "false"}
          /\ outcome = "true" <=>
                \A i \in 1..Len(event) : Verdict(filters["Source"], event[i])

\* C5's case: a NotInSet filter with an Exact pattern, matched against a
\* subject other than the pattern's text
C5_Witness ==
    /\ mresult = "true"
    /\ mfilter.op = "NotInSet"
    /\ mfilter.pat.kind = "Exact"
    /\ msubject # mfilter.pat.text

====
